---- MODULE Spec2Model ----
(***************************************************************************)
(* Python-Timelapse-Maker: the sequence scanner and the job compiler of   *)
(* timelapse_engine.py, the encoder supervisor FFmpegWorker and the batch  *)
(* runner TimelapseApp of main_gui.py.                                     *)
(*                                                                         *)
(* File names are sequences of one-character strings, so that prefix and   *)
(* suffix matching, int(), the %0Nd template and the sort key are computed *)
(* as the code computes them.                                              *)
(***************************************************************************)
EXTENDS Integers, Sequences, FiniteSets, TLC

VARIABLES
    \* ---- scanner (timelapse_engine.py) ----
    scan_pc,               \* "input" | "scanned" | "counted"
    directory_path,        \* the directory scanned: [is_dir, name, entries, listing], entries a
                           \* set of [name, is_file], listing the order iterdir() returns them in
    filename_prefix,       \* the prefix the scan runs with
    extra_path,            \* the further entries of parent_dir_paths (a sequence of paths)
    yielded,               \* runs yielded by generate_ffmpeg_commands_for_sequences_in_dir(directory_path)
    yielded_extra,         \* runs yielded for the directory of extra_path (if any)
    total_sequence_count,  \* result of count_total_sequences_in_paths, -1 before the call
    common_settings,       \* the settings record the jobs are compiled with
    dimensions,            \* what get_image_dimensions returns for a first image
    jobs,                  \* (ffmpeg_cmd, final_output_path, num_frames) of each run yielded
    listing_again,         \* the order iterdir() returns the entries in on a second run
    jobs_again,            \* the jobs a second run of the generator yields
    parent_dir_path,       \* the parent path find_potential_sequence_dirs is called with
    found_dirs,            \* what find_potential_sequence_dirs returned
    discover_outcome,      \* "none" before the call, then "returned" or "raised"
    scale_custom_width_edit,   \* the text of the custom width field
    scale_custom_height_edit,  \* the text of the custom height field
    gather_pc,             \* "idle", "custom" (scale type Custom WxH selected), "gathered"
    second_path,           \* a second directory of dirs_to_process_cache, <<>> if there is none
    jobs_second,           \* the jobs the generator yields for the second directory
    scan_records,          \* the data of the sequence items the scan put into the tree
    dispatched,            \* what process_next_individual_sequence did for a queue entry
    \* ---- FFmpegWorker (main_gui.py), its encoder process and the thread calling cancel_task ----
    w_pc,                  \* position of the worker thread in run()
    is_cancelled,          \* self._is_cancelled
    process,               \* self.process: "None" or "Popen"
    total_frames,          \* self.total_frames
    line,                  \* the line run() holds after readline()
    emitted,               \* the progress_update and finished signals emitted, in order
    w_exception,           \* the exception that left run(), or "None"
    c_pc,                  \* position of the GUI thread in cancel_task()
    cancel_in_flight,      \* cancel_task was invoked before the encoder had exited
    ffmpeg_cmd_list,       \* self.ffmpeg_cmd_list: the argument list of the job
    ffmpeg_cmd_with_progress,  \* the argument list run() hands to Popen, <<>> before run()
    warning_logged,        \* run() logged the warning of the fallback placement
    proc,                  \* the encoder process: "none", "running", "closed" (stdout closed), "exited"
    returncode,            \* its exit status once exited: 0, or 1 for any non-zero status
    pipe,                  \* lines the encoder wrote to stdout that run() has not read
    enc_frame,             \* last frame number the encoder reported
    enc_end_written,       \* the encoder wrote progress=end
    \* ---- TimelapseApp (main_gui.py): the batch runner and its controls ----
    tree,                  \* dir_tree_widget: the sequence items, each [start, checked]
    removed_since_scan,    \* the sequence items whose files were removed after the scan
    start_button,          \* start_button.isEnabled()
    scan_button,           \* scan_button.isEnabled()
    cancel_batch_button,   \* cancel_batch_button.isEnabled()
    cancel_current_button, \* cancel_current_button.isEnabled()
    batch_cancelled_flag,  \* self.batch_cancelled_flag
    sequences_queue_for_batch,            \* the queue: the items selected at start
    current_batch_sequence_index,         \* self.current_batch_sequence_index
    processed_sequences_in_batch_count,   \* self.processed_sequences_in_batch_count
    active_ffmpeg_worker,  \* self.active_ffmpeg_worker: "None" or "FFmpegWorker"
    gui_last               \* the handler that ran last on the GUI thread, with its outcome

discoverVars == <<parent_dir_path, found_dirs, discover_outcome>>
gatherVars == <<scale_custom_width_edit, scale_custom_height_edit, gather_pc>>
relocateVars == <<second_path, jobs_second, scan_records, dispatched>>
scanVars == <<scan_pc, directory_path, filename_prefix, extra_path, yielded, yielded_extra,
              total_sequence_count, common_settings, dimensions, jobs, listing_again,
              jobs_again, discoverVars, gatherVars, relocateVars>>
launchVars == <<ffmpeg_cmd_list, ffmpeg_cmd_with_progress, warning_logged>>
workerVars == <<w_pc, is_cancelled, process, total_frames, line, emitted, w_exception, c_pc,
                cancel_in_flight, launchVars>>
encoderVars == <<proc, returncode, pipe, enc_frame, enc_end_written>>

buttonVars == <<start_button, scan_button, cancel_batch_button, cancel_current_button>>
batchVars == <<batch_cancelled_flag, sequences_queue_for_batch, current_batch_sequence_index,
               processed_sequences_in_batch_count, active_ffmpeg_worker>>
appVars == <<tree, removed_since_scan, buttonVars, batchVars, gui_last>>

vars == <<scanVars, workerVars, encoderVars, appVars>>

----------------------------------------------------------------------------
(* Bounds of the model *)

\* longest zero-padded digit string of a file name in the modelled directories
MaxDigits == 2
\* largest frame number of a file name in the modelled directories
MaxVal == 11

\* frame numbers of the modelled directories: the window that crosses 9 -> 10
MinVal == MaxVal - 3
\* largest expected frame count of the job a worker runs
MaxFrames == 2
\* lines the stdout pipe of the encoder holds unread
MaxPipe == 2
\* sequences a scan puts into the tree
MaxSeqs == 3
\* directories of at most this many entries are listed in every order
MaxPermuted == 3

----------------------------------------------------------------------------
(* Characters and strings *)

Digits == <<"0", "1", "2", "3", "4", "5", "6", "7", "8", "9">>
DigitChars == {Digits[i] : i \in 1..Len(Digits)}
DigitVal(c) == (CHOOSE i \in 1..Len(Digits) : Digits[i] = c) - 1

\* ord() of the characters that occur in the modelled names
Code(c) ==
    CASE c = "." -> 46
      [] c \in DigitChars -> 48 + DigitVal(c)
      [] c = "G" -> 71
      [] c = "J" -> 74
      [] c = "P" -> 80
      [] c = "x" -> 120

\* str.__lt__: lexicographic order by code point
RECURSIVE StrLess(_, _)
StrLess(a, b) ==
    IF b = <<>> THEN FALSE
    ELSE IF a = <<>> THEN TRUE
    ELSE IF Code(Head(a)) # Code(Head(b)) THEN Code(Head(a)) < Code(Head(b))
    ELSE StrLess(Tail(a), Tail(b))

startswith(s, p) == Len(p) <= Len(s) /\ SubSeq(s, 1, Len(p)) = p
endswith(s, p) == Len(p) <= Len(s) /\ SubSeq(s, Len(s) - Len(p) + 1, Len(s)) = p
isdigit(s) == Len(s) > 0 /\ \A i \in 1..Len(s) : s[i] \in DigitChars

\* int(num_str) of a decimal digit string
RECURSIVE IntOf(_)
IntOf(s) ==
    IF s = <<>> THEN 0
    ELSE 10 * IntOf(SubSeq(s, 1, Len(s) - 1)) + DigitVal(s[Len(s)])

\* str(v) for v >= 0
RECURSIVE Decimal(_)
Decimal(v) ==
    IF v < 10 THEN <<Digits[v + 1]>>
    ELSE Decimal(v \div 10) \o <<Digits[(v % 10) + 1]>>

RECURSIVE ZeroPad(_, _)
ZeroPad(s, width) == IF Len(s) >= width THEN s ELSE ZeroPad(<<"0">> \o s, width)

\* "%0{width}d" % v : at least width digits, never truncated
FormatNum(width, v) == ZeroPad(Decimal(v), width)

\* None, told apart from every digit string
None == <<"None">>

ENGINE_DEFAULT_FILENAME_PREFIX == <<"P">>
ENGINE_DEFAULT_FILENAME_SUFFIX == <<".", "J", "P", "G">>

get_numeric_part(filename_str, prefix, suffix) ==
    IF startswith(filename_str, prefix) /\ endswith(filename_str, suffix)
    THEN LET stop == IF Len(suffix) = 0 THEN 0 ELSE Len(filename_str) - Len(suffix)
             potential_num_part == SubSeq(filename_str, Len(prefix) + 1, stop)
         IN  IF isdigit(potential_num_part) THEN potential_num_part ELSE None
    ELSE None

----------------------------------------------------------------------------
(* Directories of the model *)

Suffixes == {ENGINE_DEFAULT_FILENAME_SUFFIX}
Prefixes == {ENGINE_DEFAULT_FILENAME_PREFIX, ENGINE_DEFAULT_FILENAME_PREFIX \o <<"0">>}

DigitStrs == {FormatNum(w, v) : w \in 1..MaxDigits, v \in MinVal..MaxVal}
FrameName(ds) == ENGINE_DEFAULT_FILENAME_PREFIX \o ds \o ENGINE_DEFAULT_FILENAME_SUFFIX
\* a file whose middle part is not numeric
OtherName == ENGINE_DEFAULT_FILENAME_PREFIX \o <<"x">> \o ENGINE_DEFAULT_FILENAME_SUFFIX
\* a subdirectory named like a frame
SubdirName == FrameName(FormatNum(MaxDigits, MaxVal - 1))

Entry(n, f) == [name |-> n, is_file |-> f]
Entries == {Entry(FrameName(ds), TRUE) : ds \in DigitStrs}
           \cup {Entry(OtherName, TRUE), Entry(SubdirName, FALSE)}
\* a directory holds each name once
Contents == {d \in SUBSET Entries : \A e1, e2 \in d : e1.name = e2.name => e1 = e2}

\* one order of the entries of a directory
RECURSIVE SomeOrder(_)
SomeOrder(d) ==
    IF d = {} THEN <<>>
    ELSE LET e == CHOOSE x \in d : TRUE IN <<e>> \o SomeOrder(d \ {e})

\* directory_path.name
DirName == <<"D">>

\* a path: a directory with its entries and the order iterdir() lists them in, or
\* something that is no directory
DirPath(d) == [is_dir |-> TRUE, name |-> DirName, entries |-> d, listing |-> SomeOrder(d)]
Listed(d, l) == [DirPath(d) EXCEPT !.listing = l]
NotADir == [is_dir |-> FALSE, name |-> DirName, entries |-> {}, listing |-> <<>>]

\* every order of the entries
RECURSIVE Perms(_)
Perms(d) ==
    IF d = {} THEN {<<>>}
    ELSE UNION {{<<e>> \o l : l \in Perms(d \ {e})} : e \in d}

Reverse(l) == [i \in 1..Len(l) |-> l[Len(l) + 1 - i]]

\* the orders iterdir() is modelled to return: all of them for a small directory,
\* one order and its reverse for a larger one
Listings(d) ==
    IF Cardinality(d) <= MaxPermuted THEN Perms(d)
    ELSE {SomeOrder(d), Reverse(SomeOrder(d))}

\* the directories of a set of contents, each with every modelled listing
ListedDirs(contents) == UNION {{Listed(d, l) : l \in Listings(d)} : d \in contents}

\* the directories offered as a second entry of parent_dir_paths
\* the further entries of parent_dir_paths offered to count_total_sequences_in_paths
ExtraPaths == {<<>>, <<NotADir>>, <<DirPath({})>>,
               <<DirPath({Entry(FrameName(FormatNum(MaxDigits, MaxVal)), TRUE)})>>,
               <<DirPath({Entry(FrameName(FormatNum(MaxDigits, MaxVal)), TRUE),
                          Entry(FrameName(FormatNum(MaxDigits, MinVal)), TRUE)})>>}

is_file(dir, n) == Entry(n, TRUE) \in dir.entries

----------------------------------------------------------------------------
(* Sequence Scanner: generate_ffmpeg_commands_for_sequences_in_dir and     *)
(* count_total_sequences_in_paths                                          *)

\* directory_path.iterdir(): the entries in the order the file system lists them
iterdir(dir) == dir.listing

FileInfo(n, num_str) == [path |-> n, num_str |-> num_str, num_val |-> IntOf(num_str)]

\* the loop that collects (file_path, num_str, int(num_str)) of the matching files
RECURSIVE all_potential_files_info(_, _, _)
all_potential_files_info(listing, prefix, suffix) ==
    IF listing = <<>> THEN <<>>
    ELSE LET file_path == Head(listing)
             num_str == get_numeric_part(file_path.name, prefix, suffix)
             rest == all_potential_files_info(Tail(listing), prefix, suffix)
         IN  IF file_path.is_file /\ num_str # None /\ num_str # <<>>
             THEN <<FileInfo(file_path.name, num_str)>> \o rest
             ELSE rest

\* key=lambda x: x[2]: the name does not break ties
SortKeyLessByValueOnly(a, b) == a.num_val < b.num_val

\* key=lambda x: (x[2], x[0].name)
SortKeyLess(a, b) ==
    \/ a.num_val < b.num_val
    \/ a.num_val = b.num_val /\ StrLess(a.path, b.path)

RECURSIVE InsertSorted(_, _)
InsertSorted(x, sorted) ==
    IF sorted = <<>> THEN <<x>>
    ELSE IF SortKeyLess(x, Head(sorted)) THEN <<x>> \o sorted
    ELSE <<Head(sorted)>> \o InsertSorted(x, Tail(sorted))

\* no sort: the infos stay in the order of the listing
SortInfosKeepsListingOrder(infos) == infos

\* list.sort(key=...)
RECURSIVE SortInfos(_)
SortInfos(infos) ==
    IF infos = <<>> THEN <<>>
    ELSE InsertSorted(infos[Len(infos)], SortInfos(SubSeq(infos, 1, Len(infos) - 1)))

Range(s) == {s[i] : i \in 1..Len(s)}

\* a probe loop that stops after the start file
ProbeFramesFirstOnly(dir, prefix, suffix, num_digits, v) ==
    LET expected_filename == prefix \o FormatNum(num_digits, v) \o suffix
    IN  IF is_file(dir, expected_filename) THEN <<expected_filename>> ELSE <<>>

\* the inner while True loop: the expected file names that exist, from v upward
RECURSIVE ProbeFrames(_, _, _, _, _)
ProbeFrames(dir, prefix, suffix, num_digits, v) ==
    LET expected_filename == prefix \o FormatNum(num_digits, v) \o suffix
    IN  IF is_file(dir, expected_filename)
        THEN <<expected_filename>> \o ProbeFrames(dir, prefix, suffix, num_digits, v + 1)
        ELSE <<>>

\* a run whose template is one digit wider than the digit string of its start file
RunWiderTemplate(prefix, suffix, num_digits, frames) ==
    [start_number_str |-> get_numeric_part(frames[1], prefix, suffix),
     num_digits |-> num_digits + 1,
     frames |-> frames,
     num_frames |-> Len(frames)]

Run(prefix, suffix, num_digits, frames) ==
    [start_number_str |-> get_numeric_part(frames[1], prefix, suffix),
     num_digits |-> num_digits,
     frames |-> frames,
     num_frames |-> Len(frames)]

\* the for loop over the sorted infos of generate_ffmpeg_commands_for_sequences_in_dir
RECURSIVE SequencesLoop(_, _, _, _, _)
SequencesLoop(infos, processed_files_in_this_dir, dir, prefix, suffix) ==
    IF infos = <<>> THEN <<>>
    ELSE IF Head(infos).path \in processed_files_in_this_dir
    THEN SequencesLoop(Tail(infos), processed_files_in_this_dir, dir, prefix, suffix)
    ELSE LET num_digits_for_pattern == Len(Head(infos).num_str)
             frames == ProbeFrames(dir, prefix, suffix, num_digits_for_pattern,
                                   Head(infos).num_val)
             rest == SequencesLoop(Tail(infos), processed_files_in_this_dir \cup Range(frames),
                                   dir, prefix, suffix)
         IN  IF frames # <<>>
             THEN <<Run(prefix, suffix, num_digits_for_pattern, frames)>> \o rest
             ELSE rest

generate_ffmpeg_commands_for_sequences_in_dir(dir, prefix, suffix) ==
    SequencesLoop(SortInfos(all_potential_files_info(iterdir(dir), prefix, suffix)),
                  {}, dir, prefix, suffix)

\* the counting loop with the simplification its comment describes: every start file counts
RECURSIVE CountLoopNoMarking(_, _, _, _, _)
CountLoopNoMarking(infos, processed_files_in_this_dir, dir, prefix, suffix) ==
    IF infos = <<>> THEN 0
    ELSE 1 + CountLoopNoMarking(Tail(infos), processed_files_in_this_dir, dir, prefix, suffix)

\* the for loop over the sorted infos of count_total_sequences_in_paths
RECURSIVE CountLoop(_, _, _, _, _)
CountLoop(infos, processed_files_in_this_dir, dir, prefix, suffix) ==
    IF infos = <<>> THEN 0
    ELSE IF Head(infos).path \in processed_files_in_this_dir
    THEN CountLoop(Tail(infos), processed_files_in_this_dir, dir, prefix, suffix)
    ELSE LET num_digits_for_pattern == Len(Head(infos).num_str)
             frames == ProbeFrames(dir, prefix, suffix, num_digits_for_pattern,
                                   Head(infos).num_val)
             sequence_had_frames == frames # <<>>
         IN  (1 - (IF sequence_had_frames THEN 0 ELSE 1))
             + CountLoop(Tail(infos), processed_files_in_this_dir \cup Range(frames),
                         dir, prefix, suffix)

RECURSIVE count_total_sequences_in_paths(_, _, _)
count_total_sequences_in_paths(parent_dir_paths, prefix, suffix) ==
    IF parent_dir_paths = <<>> THEN 0
    ELSE LET dir == Head(parent_dir_paths)
             rest == count_total_sequences_in_paths(Tail(parent_dir_paths), prefix, suffix)
         IN  IF ~dir.is_dir THEN rest
             ELSE LET infos == all_potential_files_info(iterdir(dir), prefix, suffix)
                  IN  IF infos = <<>> THEN rest
                      ELSE CountLoop(SortInfos(infos), {}, dir, prefix, suffix) + rest

----------------------------------------------------------------------------
(* Job Compiler: the part of generate_ffmpeg_commands_for_sequences_in_dir  *)
(* that turns a run and the settings record into (ffmpeg_cmd,              *)
(* final_output_path, num_frames_to_process).  Strings are sequences of    *)
(* tokens: single characters where the code looks into them, whole words   *)
(* elsewhere.                                                              *)

Tok(word) == <<word>>

MAX_NVENC_H264_WIDTH == 4096
MAX_NVENC_HEVC_WIDTH == 8192

\* get_image_dimensions returned None
NoDimensions == <<>>
\* the probe results of the model: none, and widths at and above the NVENC maxima
Dimensions ==
    {NoDimensions,
     <<MAX_NVENC_H264_WIDTH, MAX_NVENC_H264_WIDTH \div 2>>,
     <<MAX_NVENC_H264_WIDTH + 2, MAX_NVENC_H264_WIDTH \div 2>>,
     <<MAX_NVENC_HEVC_WIDTH + 2, MAX_NVENC_H264_WIDTH>>}

\* gather_common_settings_from_ui for H.264 / .mp4 in software: CRF and preset
SoftwareSettings ==
    [input_fps |-> "24.0", output_fps |-> "24.0",
     main_output_dir |-> Tok("timelapses_output"),
     output_basename_ui |-> <<>>,
     video_codec |-> "libx264", base_codec |-> "libx264",
     output_extension |-> ".mp4", pixel_format_final |-> "yuv420p",
     is_crf_based |-> TRUE, crf_value |-> "23", codec_preset |-> "medium",
     hwaccel_type |-> "none", hw_cq_value |-> "None", hw_preset |-> "None",
     scale_filter_string |-> <<>>, resolution_desc |-> Tok("Original (no scaling)")]

\* the same with hardware acceleration NVENC selected: the hardware variant of the
\* codec, CQ instead of CRF, a hardware preset
NvencSettings(base_codec, hw_variant) ==
    [SoftwareSettings EXCEPT !.video_codec = hw_variant, !.base_codec = base_codec,
                             !.hwaccel_type = "nvenc",
                             !.is_crf_based = FALSE, !.crf_value = "None",
                             !.codec_preset = "None",
                             !.hw_cq_value = "23", !.hw_preset = "p5"]

\* scale type "1080p (1920xH)" selected
Scaled1080p(settings) ==
    [settings EXCEPT !.scale_filter_string = Tok("scale=1920:-2:flags=lanczos"),
                     !.resolution_desc = Tok("1080p (1920xH)")]

\* text.strip() for the blank
RECURSIVE strip(_)
strip(text) ==
    IF text = <<>> THEN text
    ELSE IF Head(text) = " " THEN strip(Tail(text))
    ELSE IF text[Len(text)] = " " THEN strip(SubSeq(text, 1, Len(text) - 1))
    ELSE text

\* int(text): blanks around an optional sign and decimal digits; ok is FALSE where
\* Python raises ValueError
int(text) ==
    LET stripped == strip(text)
        signed == stripped # <<>> /\ Head(stripped) \in {"+", "-"}
        body == IF signed THEN Tail(stripped) ELSE stripped
    IN  IF isdigit(body)
        THEN [ok |-> TRUE, number |-> IF signed /\ Head(stripped) = "-" THEN 0 - IntOf(body)
                                      ELSE IntOf(body)]
        ELSE [ok |-> FALSE, number |-> 0]

\* lines 875-887: scale type "Custom WxH" with the texts w and h of the two fields
custom_scale(settings, w, h) ==
    LET iw == int(w)
        width_ok == iw.ok /\ iw.number > 0 /\ iw.number % 2 = 0
        height_ok == \/ h = <<"-", "2">>
                     \/ isdigit(h) /\ IntOf(h) > 0 /\ IntOf(h) % 2 = 0
    IN  IF width_ok /\ height_ok
        THEN [settings EXCEPT
                 !.scale_filter_string = <<"scale=">> \o w \o <<":">> \o h \o <<":flags=lanczos">>,
                 !.resolution_desc = <<"Custom", " ">> \o w \o <<"x">>
                                     \o (IF h # <<"-", "2">> THEN h ELSE <<"(", "auto_H)">>)]
        ELSE [settings EXCEPT !.scale_filter_string = <<>>,
                              !.resolution_desc = Tok("Original (Custom Err)")]

\* a custom output base name entered
CustomBasename == <<"m", "y">>
WithBasename(settings) == [settings EXCEPT !.output_basename_ui = CustomBasename]

CodecSettings ==
    {SoftwareSettings, NvencSettings("libx264", "h264_nvenc"),
     NvencSettings("libx265", "hevc_nvenc")}
CommonSettings ==
    LET scaled == CodecSettings \cup {Scaled1080p(c) : c \in CodecSettings}
    IN  scaled \cup {WithBasename(c) : c \in scaled}

\* video_codec.replace("_nvenc", "Nvenc").replace("_qsv", "QSV").replace("_amf", "AMF")
codec_for_fn(video_codec) ==
    CASE video_codec = "h264_nvenc" -> "h264Nvenc"
      [] video_codec = "hevc_nvenc" -> "hevcNvenc"
      [] OTHER -> video_codec

\* effective_resolution_desc.split('(')[0].strip().replace(' ', '_')
\*     .replace('%_of_original', '%orig').lower(), of a token string
res_tag_fn(effective_resolution_desc) ==
    IF effective_resolution_desc = Tok("1080p (1920xH)") THEN Tok("1080p")
    ELSE IF effective_resolution_desc = Tok("Original (no scaling)") THEN Tok("original")
    ELSE LET opens == {i \in 1..Len(effective_resolution_desc) :
                           effective_resolution_desc[i] = "("}
             head == IF opens = {} THEN effective_resolution_desc
                     ELSE SubSeq(effective_resolution_desc, 1,
                                 (CHOOSE i \in opens : \A j \in opens : i <= j) - 1)
         IN  [i \in 1..Len(head) |->
                 CASE head[i] = "AutoScaled-" -> "autoscaled-"
                   [] head[i] = "Custom" -> "custom"
                   [] head[i] = " " -> "_"
                   [] OTHER -> head[i]]

\* "_".join(str(p) for p in output_filename_parts if p)
RECURSIVE JoinParts(_)
JoinParts(parts) ==
    IF parts = <<>> THEN <<>>
    ELSE IF Head(parts) = <<>> THEN JoinParts(Tail(parts))
    ELSE LET rest == JoinParts(Tail(parts))
         IN  IF rest = <<>> THEN Head(parts) ELSE Head(parts) \o <<"_">> \o rest

\* lines 182-317 for one run; the settings of the model carry no ProRes, DNxHD or
\* VP9 values, so the branches of those codecs add nothing
compile_job(dir, prefix, suffix, run, settings, probed) ==
    LET num_frames_to_process == Len(run.frames)
        actual_ffmpeg_start_number_str == get_numeric_part(run.frames[1], prefix, suffix)
        image_pattern_basename_for_ffmpeg ==
            prefix \o <<"%", "0">> \o Decimal(run.num_digits) \o <<"d">> \o suffix
        img_width == IF probed # NoDimensions THEN probed[1] ELSE 0
        current_scale_filter_from_ui == settings.scale_filter_string
        video_codec == settings.video_codec
        needs_hw_scaling_adjustment ==
            /\ img_width > 0
            /\ current_scale_filter_from_ui = <<>>
            /\ \/ video_codec = "h264_nvenc" /\ img_width > MAX_NVENC_H264_WIDTH
               \/ video_codec = "hevc_nvenc" /\ img_width > MAX_NVENC_H264_WIDTH
        target_hw_scale_width == MAX_NVENC_H264_WIDTH
        effective_scale_filter ==
            IF needs_hw_scaling_adjustment
            THEN <<"scale=">> \o Decimal(target_hw_scale_width) \o <<":-2:flags=lanczos">>
            ELSE current_scale_filter_from_ui
        effective_resolution_desc ==
            IF needs_hw_scaling_adjustment
            THEN <<"AutoScaled-">> \o Decimal(target_hw_scale_width) \o <<"w">>
            ELSE settings.resolution_desc
        user_defined_basename == settings.output_basename_ui
        file_base == IF user_defined_basename # <<>> THEN user_defined_basename ELSE dir.name
        seq_tag == <<"s", "e", "q">> \o actual_ffmpeg_start_number_str
        rate_tag == <<settings.input_fps, "in-", settings.output_fps, "out">>
        quality_tag ==
            IF settings.hw_cq_value # "None" /\ settings.hwaccel_type # "none"
            THEN <<"cq", settings.hw_cq_value>>
            ELSE IF settings.is_crf_based /\ settings.crf_value # "None"
            THEN <<"crf", settings.crf_value>>
            ELSE <<>>
        preset_tag ==
            IF settings.hw_preset # "None" THEN Tok(settings.hw_preset)
            ELSE IF settings.codec_preset # "None" /\ video_codec \in {"libx264", "libx265"}
            THEN Tok(settings.codec_preset)
            ELSE <<>>
        resolution_tag ==
            IF effective_scale_filter # <<>> THEN res_tag_fn(effective_resolution_desc)
            ELSE Tok("orig")
        output_filename_parts ==
            <<file_base, seq_tag, Tok(codec_for_fn(video_codec)), rate_tag, quality_tag,
              preset_tag, resolution_tag>>
        output_video_filename == JoinParts(output_filename_parts) \o Tok(settings.output_extension)
        final_output_path == [parent |-> settings.main_output_dir, name |-> output_video_filename]
        final_vf_string ==
            IF effective_scale_filter # <<>>
            THEN effective_scale_filter \o <<",format=", settings.pixel_format_final>>
            ELSE <<"format=", settings.pixel_format_final>>
        is_hw_encoder_active ==
            settings.hwaccel_type # "none" /\ video_codec # settings.base_codec
        hw_args ==
            (IF settings.hw_cq_value # "None"
             THEN CASE settings.hwaccel_type = "nvenc" -> <<Tok("-cq"), Tok(settings.hw_cq_value)>>
                    [] settings.hwaccel_type = "qsv" ->
                           <<Tok("-global_quality"), Tok(settings.hw_cq_value)>>
                    [] OTHER -> <<>>
             ELSE <<>>)
            \o (IF settings.hw_preset # "None"
                THEN CASE settings.hwaccel_type = "nvenc" ->
                              <<Tok("-preset:v"), Tok(settings.hw_preset)>>
                       [] settings.hwaccel_type = "amf" ->
                              <<Tok("-quality"), Tok(settings.hw_preset)>>
                       [] OTHER -> <<>>
                ELSE <<>>)
        software_args ==
            (IF settings.codec_preset # "None" /\ video_codec \in {"libx264", "libx265"}
             THEN <<Tok("-preset"), Tok(settings.codec_preset)>>
             ELSE <<>>)
            \o (IF settings.is_crf_based /\ settings.crf_value # "None"
                THEN <<Tok("-crf"), Tok(settings.crf_value)>>
                ELSE <<>>)
        ffmpeg_cmd ==
            <<Tok("ffmpeg"), Tok("-y"), Tok("-framerate"), Tok(settings.input_fps),
              Tok("-start_number"), actual_ffmpeg_start_number_str,
              Tok("-i"), dir.name \o <<"/">> \o image_pattern_basename_for_ffmpeg,
              Tok("-vframes"), Decimal(num_frames_to_process)>>
            \o <<Tok("-vf"), final_vf_string>>
            \o <<Tok("-c:v"), Tok(video_codec)>>
            \o (IF is_hw_encoder_active THEN hw_args ELSE software_args)
            \o <<Tok("-r"), Tok(settings.output_fps),
                 Tok("-pix_fmt"), Tok(settings.pixel_format_final),
                 final_output_path.parent \o <<"/">> \o final_output_path.name>>
    IN  [ffmpeg_cmd |-> ffmpeg_cmd,
         final_output_path |-> final_output_path,
         num_frames_to_process |-> num_frames_to_process]

\* the (ffmpeg_cmd, final_output_path, num_frames_to_process) the generator yields,
\* one per run and in the order of the runs
yielded_jobs(dir, prefix, suffix, settings, probed) ==
    LET runs == generate_ffmpeg_commands_for_sequences_in_dir(dir, prefix, suffix)
    IN  [i \in 1..Len(runs) |-> compile_job(dir, prefix, suffix, runs[i], settings, probed)]

----------------------------------------------------------------------------
(* Directory discovery: find_potential_sequence_dirs *)

MaxChildren == 3

\* a parent path: missing, a file, or a directory with the items iterdir() yields
MissingPath == [exists |-> FALSE, is_dir |-> FALSE, children |-> <<>>]
FilePath == [exists |-> TRUE, is_dir |-> FALSE, children |-> <<>>]
ParentDir(children) == [exists |-> TRUE, is_dir |-> TRUE, children |-> children]

\* what a subdirectory of the parent holds: nothing, a file that does not match, a
\* frame file, a directory with the name of a frame file, a frame file next to
\* another file
ChildContents ==
    {{}, {Entry(OtherName, TRUE)}, {Entry(FrameName(FormatNum(1, MinVal)), TRUE)},
     {Entry(SubdirName, FALSE)},
     {Entry(OtherName, TRUE), Entry(FrameName(FormatNum(1, MinVal)), TRUE)}}
\* the k-th item of the parent: a file or a subdirectory
ChildFile(k) ==
    [is_dir |-> FALSE, name |-> DirName \o Decimal(k), entries |-> {}, listing |-> <<>>]
ChildDir(k, d) == [DirPath(d) EXCEPT !.name = DirName \o Decimal(k)]
ChildItems(k) == {ChildFile(k)} \cup {ChildDir(k, d) : d \in ChildContents}
RECURSIVE ChildLists(_)
ChildLists(n) ==
    IF n = 0 THEN {<<>>}
    ELSE ChildLists(n - 1)
         \cup {Append(c, item) : c \in {l \in ChildLists(n - 1) : Len(l) = n - 1},
                                 item \in ChildItems(n)}
ParentPaths == {MissingPath, FilePath} \cup {ParentDir(c) : c \in ChildLists(MaxChildren)}

\* lines 59-69: some file of the subdirectory matches prefix and suffix
has_matching_file(item, prefix, suffix) ==
    \E k \in 1..Len(iterdir(item)) :
        /\ iterdir(item)[k].is_file
        /\ get_numeric_part(iterdir(item)[k].name, prefix, suffix) # None

\* lines 46-76: the list is returned on every path; a parent that is not a directory
\* gets a printed message and the empty list
find_potential_sequence_dirs(parent, prefix, suffix) ==
    IF ~parent.is_dir
    THEN [outcome |-> "returned", found_dirs |-> <<>>]
    ELSE [outcome |-> "returned",
          found_dirs |-> SelectSeq(parent.children,
                                   LAMBDA item : item.is_dir
                                                 /\ has_matching_file(item, prefix, suffix))]

\* the custom scale fields as init_ui fills them; no settings gathered
NoGather ==
    /\ scale_custom_width_edit = <<"1", "9", "2", "0">>
    /\ scale_custom_height_edit = <<"1", "0", "8", "0">>
    /\ gather_pc = "idle"

\* no second directory, nothing recorded, nothing dispatched
NoJob == [exception |-> "None", found |-> FALSE, cmd_to_run |-> <<>>]
NoRelocation ==
    second_path = <<>> /\ jobs_second = <<>> /\ scan_records = <<>> /\ dispatched = NoJob

\* find_potential_sequence_dirs has not been called
NoDiscovery ==
    parent_dir_path = MissingPath /\ found_dirs = <<>> /\ discover_outcome = "none"

----------------------------------------------------------------------------
(* ScanSpec: the scanner applied to every modelled directory *)

TheSuffix == ENGINE_DEFAULT_FILENAME_SUFFIX
ParentDirPaths == <<directory_path>> \o extra_path

\* the worker and its encoder, not constructed
NoWorker ==
    /\ w_pc = "none" /\ is_cancelled = FALSE /\ process = "None" /\ total_frames = 0
    /\ line = <<>> /\ emitted = <<>> /\ w_exception = "None" /\ c_pc = "idle"
    /\ cancel_in_flight = FALSE
    /\ ffmpeg_cmd_list = <<>> /\ ffmpeg_cmd_with_progress = <<>> /\ warning_logged = FALSE
    /\ proc = "none" /\ returncode = 0 /\ pipe = <<>> /\ enc_frame = 0
    /\ enc_end_written = FALSE

\* TimelapseApp.__init__: nothing scanned, only the scan button enabled, no batch
AppConstructed ==
    /\ tree = <<>>
    /\ removed_since_scan = {}
    /\ start_button = FALSE /\ scan_button = TRUE
    /\ cancel_batch_button = FALSE /\ cancel_current_button = FALSE
    /\ batch_cancelled_flag = FALSE
    /\ sequences_queue_for_batch = <<>>
    /\ current_batch_sequence_index = 0
    /\ processed_sequences_in_batch_count = 0
    /\ active_ffmpeg_worker = "None"
    /\ gui_last = "init"

ScanInit ==
    /\ NoWorker
    /\ AppConstructed
    /\ scan_pc = "input"
    /\ directory_path \in ListedDirs(Contents)
    /\ filename_prefix \in Prefixes
    /\ extra_path \in ExtraPaths
    /\ yielded = <<>>
    /\ yielded_extra = <<>>
    /\ total_sequence_count = -1
    /\ common_settings = SoftwareSettings
    /\ dimensions = NoDimensions
    /\ jobs = <<>>
    /\ listing_again = <<>>
    /\ jobs_again = <<>>
    /\ NoDiscovery
    /\ NoGather
    /\ NoRelocation

\* the caller drains the generator for each directory
EnumerateSequences ==
    /\ scan_pc = "input"
    /\ yielded' = generate_ffmpeg_commands_for_sequences_in_dir(directory_path, filename_prefix,
                                                                TheSuffix)
    /\ yielded_extra' = IF extra_path # <<>> /\ extra_path[1].is_dir
                        THEN generate_ffmpeg_commands_for_sequences_in_dir(
                                 extra_path[1], filename_prefix, TheSuffix)
                        ELSE <<>>
    /\ jobs' = yielded_jobs(directory_path, filename_prefix, TheSuffix, common_settings,
                            dimensions)
    /\ scan_pc' = "scanned"
    /\ UNCHANGED <<directory_path, filename_prefix, extra_path, total_sequence_count,
                   common_settings, dimensions, listing_again, jobs_again>>
    /\ UNCHANGED <<discoverVars, gatherVars, relocateVars, workerVars, encoderVars, appVars>>

CountSequences ==
    /\ scan_pc = "scanned"
    /\ total_sequence_count' = count_total_sequences_in_paths(ParentDirPaths, filename_prefix,
                                                              TheSuffix)
    /\ scan_pc' = "counted"
    /\ UNCHANGED <<directory_path, filename_prefix, extra_path, yielded, yielded_extra,
                   common_settings, dimensions, jobs, listing_again, jobs_again>>
    /\ UNCHANGED <<discoverVars, gatherVars, relocateVars, workerVars, encoderVars, appVars>>

ScanNext == EnumerateSequences \/ CountSequences

ScanSpec == ScanInit /\ [][ScanNext]_vars

----------------------------------------------------------------------------
(* CompileSpec: the generator run twice over the same directory contents,  *)
(* settings record and probe result                                        *)

\* the directories compiled: small ones, listed in every order in both runs
CompileContents == {d \in Contents : Cardinality(d) < MaxPermuted}

CompileInit ==
    /\ NoWorker
    /\ AppConstructed
    /\ scan_pc = "input"
    /\ directory_path \in ListedDirs(CompileContents)
    /\ filename_prefix = ENGINE_DEFAULT_FILENAME_PREFIX
    /\ extra_path = <<>>
    /\ yielded = <<>>
    /\ yielded_extra = <<>>
    /\ total_sequence_count = -1
    /\ common_settings \in CommonSettings
    /\ dimensions \in Dimensions
    /\ jobs = <<>>
    /\ listing_again = <<>>
    /\ jobs_again = <<>>
    /\ NoDiscovery
    /\ NoGather
    /\ NoRelocation

\* a second run of the generator: iterdir() may list the same entries in another order
EnumerateAgain ==
    /\ scan_pc = "scanned"
    /\ \E l \in Listings(directory_path.entries) :
          /\ listing_again' = l
          /\ jobs_again' = yielded_jobs(Listed(directory_path.entries, l), filename_prefix,
                                        TheSuffix, common_settings, dimensions)
    /\ scan_pc' = "rescanned"
    /\ UNCHANGED <<directory_path, filename_prefix, extra_path, yielded, yielded_extra,
                   total_sequence_count, common_settings, dimensions, jobs>>
    /\ UNCHANGED <<discoverVars, gatherVars, relocateVars, workerVars, encoderVars, appVars>>

CompileNext == EnumerateSequences \/ EnumerateAgain

CompileSpec == CompileInit /\ [][CompileNext]_vars

----------------------------------------------------------------------------
(* SettingsSpec: gather_common_settings_from_ui with scale type "Custom WxH" *)
(* for every text of the two fields, then the generator run with the record *)

MaxText == 2

\* the characters typed into the custom scale fields
ScaleChars == {"0", "1", "2", "-", "+", " "}
RECURSIVE Texts(_)
Texts(n) ==
    IF n = 0 THEN {<<>>}
    ELSE Texts(n - 1) \cup {Append(t, c) : t \in {u \in Texts(n - 1) : Len(u) = n - 1},
                                           c \in ScaleChars}

SettingsInit ==
    /\ NoWorker
    /\ AppConstructed
    /\ scan_pc = "input"
    /\ directory_path = DirPath({Entry(FrameName(FormatNum(1, MinVal)), TRUE)})
    /\ filename_prefix = ENGINE_DEFAULT_FILENAME_PREFIX
    /\ extra_path = <<>>
    /\ yielded = <<>>
    /\ yielded_extra = <<>>
    /\ total_sequence_count = -1
    /\ common_settings = SoftwareSettings
    /\ dimensions = NoDimensions
    /\ jobs = <<>>
    /\ listing_again = <<>>
    /\ jobs_again = <<>>
    /\ NoDiscovery
    /\ scale_custom_width_edit \in Texts(MaxText)
    /\ scale_custom_height_edit \in Texts(MaxText)
    /\ gather_pc = "custom"
    /\ NoRelocation

\* gather_common_settings_from_ui: the record is returned whether the custom scale
\* was accepted or not
gather_common_settings_from_ui ==
    /\ gather_pc = "custom"
    /\ common_settings' = custom_scale(SoftwareSettings, scale_custom_width_edit,
                                       scale_custom_height_edit)
    /\ gather_pc' = "gathered"
    /\ UNCHANGED <<scan_pc, directory_path, filename_prefix, extra_path, yielded,
                   yielded_extra, total_sequence_count, dimensions, jobs, listing_again,
                   jobs_again, discoverVars, scale_custom_width_edit,
                   scale_custom_height_edit, relocateVars>>
    /\ UNCHANGED <<workerVars, encoderVars, appVars>>

\* the generator is called with the record gathered
EnumerateWithSettings == gather_pc = "gathered" /\ EnumerateSequences

SettingsNext == gather_common_settings_from_ui \/ EnumerateWithSettings

SettingsSpec == SettingsInit /\ [][SettingsNext]_vars

----------------------------------------------------------------------------
(* BatchScanSpec: scan_directories_action over two directories, which       *)
(* records one entry per sequence, and process_next_individual_sequence,   *)
(* which looks the job of an entry up again                                *)

\* a name that holds the text "seq" followed by a digit
SeqName == <<"s", "e", "q", "7">>
\* the two directories are subdirectories of one parent: their names differ
FirstDirNames == {DirName, SeqName}
SecondDirNames == {<<"E">>, DirName \o <<"0">>}
SecondContents ==
    {{Entry(FrameName(FormatNum(1, v)), TRUE)} : v \in {MinVal, MinVal + 1}}
BatchSettings ==
    {SoftwareSettings, WithBasename(SoftwareSettings),
     [SoftwareSettings EXCEPT !.output_basename_ui = SeqName]}

\* re.search(r"seq(\d+)", name).group(1): the digits after the first "seq" that a
\* digit follows; "UnknownStart" without a match
seq_start_display(name) ==
    LET matches == {i \in 1..(Len(name) - 3) :
                       /\ name[i] = "s" /\ name[i + 1] = "e" /\ name[i + 2] = "q"
                       /\ name[i + 3] \in DigitChars}
    IN  IF matches = {} THEN Tok("UnknownStart")
        ELSE LET at == CHOOSE i \in matches : \A j \in matches : i <= j
                 last == CHOOSE k \in (at + 3)..Len(name) :
                             /\ \A j \in (at + 3)..k : name[j] \in DigitChars
                             /\ k = Len(name) \/ name[k + 1] \notin DigitChars
             IN  SubSeq(name, at + 3, last)

\* lines 1009-1020: the data of the sequence item of each job yielded
sequence_items(parent_dir_path_, yielded_) ==
    [i \in 1..Len(yielded_) |->
        [type |-> "sequence", parent_path |-> parent_dir_path_,
         start_number_str_approx |-> seq_start_display(yielded_[i].final_output_path.name),
         num_frames_approx |-> yielded_[i].num_frames_to_process]]

BatchScanInit ==
    /\ NoWorker
    /\ AppConstructed
    /\ scan_pc = "input"
    /\ \E d \in CompileContents, n \in FirstDirNames :
          directory_path = [DirPath(d) EXCEPT !.name = n]
    /\ filename_prefix = ENGINE_DEFAULT_FILENAME_PREFIX
    /\ extra_path = <<>>
    /\ yielded = <<>>
    /\ yielded_extra = <<>>
    /\ total_sequence_count = -1
    /\ common_settings \in BatchSettings
    /\ dimensions = NoDimensions
    /\ jobs = <<>>
    /\ listing_again = <<>>
    /\ jobs_again = <<>>
    /\ NoDiscovery
    /\ NoGather
    /\ \E d \in SecondContents, n \in SecondDirNames :
          second_path = [DirPath(d) EXCEPT !.name = n]
    /\ jobs_second = <<>>
    /\ scan_records = <<>>
    /\ dispatched = NoJob

\* scan_directories_action, lines 999-1020: the generator is drained for each
\* directory and one sequence item is recorded per job
ScanParents ==
    /\ scan_pc = "input"
    /\ yielded' = generate_ffmpeg_commands_for_sequences_in_dir(directory_path,
                                                                filename_prefix, TheSuffix)
    /\ yielded_extra' = generate_ffmpeg_commands_for_sequences_in_dir(second_path,
                                                                      filename_prefix, TheSuffix)
    /\ LET first == yielded_jobs(directory_path, filename_prefix, TheSuffix,
                                 common_settings, dimensions)
           second == yielded_jobs(second_path, filename_prefix, TheSuffix,
                                  common_settings, dimensions)
       IN  /\ jobs' = first
           /\ jobs_second' = second
           /\ scan_records' = sequence_items(directory_path, first)
                                  \o sequence_items(second_path, second)
    /\ scan_pc' = "scanned"
    /\ UNCHANGED <<directory_path, filename_prefix, extra_path, total_sequence_count,
                   common_settings, dimensions, listing_again, jobs_again, discoverVars,
                   gatherVars, second_path, dispatched>>
    /\ UNCHANGED <<workerVars, encoderVars, appVars>>

\* process_next_individual_sequence for one entry of the queue, lines 1114-1138: the
\* entry is read with the key "start_number_str" (line 1118), which the scan never
\* stored, so the method ends in KeyError before the generator is called
process_next_individual_sequence ==
    /\ scan_pc = "scanned"
    /\ \E index \in 1..Len(scan_records) :
          dispatched' = [exception |-> "KeyError", found |-> FALSE, cmd_to_run |-> <<>>,
                         index |-> index]
    /\ scan_pc' = "dispatched"
    /\ UNCHANGED <<directory_path, filename_prefix, extra_path, yielded, yielded_extra,
                   total_sequence_count, common_settings, dimensions, jobs, listing_again,
                   jobs_again, discoverVars, gatherVars, second_path, jobs_second,
                   scan_records>>
    /\ UNCHANGED <<workerVars, encoderVars, appVars>>

BatchScanNext == ScanParents \/ process_next_individual_sequence

BatchScanSpec == BatchScanInit /\ [][BatchScanNext]_vars

----------------------------------------------------------------------------
(* DiscoverSpec: find_potential_sequence_dirs applied to every modelled parent *)

DiscoverInit ==
    /\ NoWorker
    /\ AppConstructed
    /\ scan_pc = "idle" /\ directory_path = DirPath({})
    /\ filename_prefix \in Prefixes
    /\ extra_path = <<>> /\ yielded = <<>> /\ yielded_extra = <<>>
    /\ total_sequence_count = -1
    /\ common_settings = SoftwareSettings /\ dimensions = NoDimensions
    /\ jobs = <<>> /\ listing_again = <<>> /\ jobs_again = <<>>
    /\ parent_dir_path \in ParentPaths
    /\ found_dirs = <<>>
    /\ discover_outcome = "none"
    /\ NoGather
    /\ NoRelocation

DiscoverDirectories ==
    /\ discover_outcome = "none"
    /\ LET result == find_potential_sequence_dirs(parent_dir_path, filename_prefix, TheSuffix)
       IN  /\ found_dirs' = result.found_dirs
           /\ discover_outcome' = result.outcome
    /\ UNCHANGED <<scan_pc, directory_path, filename_prefix, extra_path, yielded,
                   yielded_extra, total_sequence_count, common_settings, dimensions, jobs,
                   listing_again, jobs_again, parent_dir_path>>
    /\ UNCHANGED <<gatherVars, relocateVars, workerVars, encoderVars, appVars>>

DiscoverNext == DiscoverDirectories

DiscoverSpec == DiscoverInit /\ [][DiscoverNext]_vars

----------------------------------------------------------------------------
(* Process Supervisor: FFmpegWorker.run, FFmpegWorker.cancel_task and the  *)
(* encoder process they supervise                                          *)

\* no scan in progress
NoScan ==
    /\ scan_pc = "idle" /\ directory_path = DirPath({}) /\ filename_prefix = <<>>
    /\ extra_path = <<>> /\ yielded = <<>> /\ yielded_extra = <<>>
    /\ total_sequence_count = -1
    /\ common_settings = SoftwareSettings /\ dimensions = NoDimensions
    /\ jobs = <<>> /\ listing_again = <<>> /\ jobs_again = <<>>
    /\ NoDiscovery
    /\ NoGather
    /\ NoRelocation

\* lines of the -progress stream
FrameLine(n) == [key |-> "frame", value |-> n]
EndLine == [key |-> "progress", value |-> "end"]
\* any other key=value line (fps=..., progress=continue)
OtherLine == [key |-> "other", value |-> "x"]
EofLine == [key |-> "", value |-> ""]

ProgressUpdate(current, total) ==
    [signal |-> "progress_update", current |-> current, total |-> total]
\* finished(success, "<path><tag>"); in_flight_cancel records whether cancel_task had
\* been invoked, before the encoder exited, when the signal was emitted
Finished(success, tag) ==
    [signal |-> "finished", success |-> success, tag |-> tag,
     in_flight_cancel |-> cancel_in_flight]

Alive == proc \in {"running", "closed"}
\* self.process and self.process.poll() is None
ProcessIsRunning == process # "None" /\ Alive

\* list.index(arg): the position of the first arg, 0 where Python raises ValueError
index(list, arg) ==
    IF \E k \in 1..Len(list) : list[k] = arg
    THEN CHOOSE k \in 1..Len(list) : list[k] = arg /\ \A j \in 1..(k - 1) : list[j] # arg
    ELSE 0

\* the two progress arguments placed at the end of the argument list
cmd_with_progress_appended(str_ffmpeg_cmd_list) ==
    str_ffmpeg_cmd_list \o <<Tok("-progress"), Tok("pipe:1")>>

\* lines 79-88: the argument list with -progress pipe:1 in it
cmd_with_progress(str_ffmpeg_cmd_list) ==
    LET i_index == index(str_ffmpeg_cmd_list, Tok("-i"))
    IN  IF i_index > 0
        THEN SubSeq(str_ffmpeg_cmd_list, 1, i_index - 1)
             \o <<Tok("-progress"), Tok("pipe:1")>>
             \o SubSeq(str_ffmpeg_cmd_list, i_index, Len(str_ffmpeg_cmd_list))
        ELSE <<str_ffmpeg_cmd_list[1], Tok("-progress"), Tok("pipe:1")>>
             \o SubSeq(str_ffmpeg_cmd_list, 2, Len(str_ffmpeg_cmd_list))

\* the argument lists of the jobs compiled from the small directories
JobCommands ==
    UNION {{j[i].ffmpeg_cmd : i \in DOMAIN j} :
           j \in {yielded_jobs(DirPath(d), ENGINE_DEFAULT_FILENAME_PREFIX, TheSuffix, s,
                               NoDimensions) : d \in CompileContents, s \in CommonSettings}}
\* an argument list that names no input
WithoutInput(cmd) == SelectSeq(cmd, LAMBDA arg : arg # Tok("-i"))
\* an argument list with a second input ahead of the image sequence
WithSecondInput(cmd) == <<Head(cmd), Tok("-i"), Tok("audio")>> \o Tail(cmd)
\* the argument lists a worker is constructed with
LaunchCommands ==
    JobCommands \cup {WithoutInput(cmd) : cmd \in JobCommands}
                \cup {WithSecondInput(cmd) : cmd \in JobCommands}
                \cup {<<Tok("ffmpeg")>>}
\* the argument list of the job of a directory holding one frame
OneFrameCommand ==
    yielded_jobs(DirPath({Entry(FrameName(FormatNum(1, MinVal)), TRUE)}),
                 ENGINE_DEFAULT_FILENAME_PREFIX, TheSuffix, SoftwareSettings,
                 NoDimensions)[1].ffmpeg_cmd

\* FFmpegWorker.__init__ followed by start()
WorkerInit ==
    /\ NoScan
    /\ AppConstructed
    /\ w_pc = "start"
    /\ is_cancelled = FALSE
    /\ process = "None"
    /\ total_frames \in 1..MaxFrames
    /\ line = EofLine
    /\ emitted = <<>>
    /\ w_exception = "None"
    /\ c_pc = "idle"
    /\ cancel_in_flight = FALSE
    /\ ffmpeg_cmd_list = OneFrameCommand
    /\ ffmpeg_cmd_with_progress = <<>>
    /\ warning_logged = FALSE
    /\ proc = "none" /\ returncode = 0 /\ pipe = <<>> /\ enc_frame = 0
    /\ enc_end_written = FALSE

\* ---- the encoder process ----

EncoderWriteFrame ==
    /\ proc = "running" /\ ~enc_end_written /\ Len(pipe) < MaxPipe
    /\ \E n \in (enc_frame + 1)..total_frames :
          /\ pipe' = Append(pipe, FrameLine(n))
          /\ enc_frame' = n
    /\ UNCHANGED <<proc, returncode, enc_end_written, workerVars, scanVars, appVars>>

EncoderWriteOther ==
    /\ proc = "running" /\ ~enc_end_written /\ Len(pipe) < MaxPipe
    /\ pipe' = Append(pipe, OtherLine)
    /\ UNCHANGED <<proc, returncode, enc_frame, enc_end_written, workerVars, scanVars, appVars>>

EncoderWriteEnd ==
    /\ proc = "running" /\ ~enc_end_written /\ Len(pipe) < MaxPipe
    /\ pipe' = Append(pipe, EndLine)
    /\ enc_end_written' = TRUE
    /\ UNCHANGED <<proc, returncode, enc_frame, workerVars, scanVars, appVars>>

EncoderCloseStdout ==
    /\ proc = "running"
    /\ proc' = "closed"
    /\ UNCHANGED <<returncode, pipe, enc_frame, enc_end_written, workerVars, scanVars, appVars>>

\* exit status 0 only after progress=end was written
EncoderExit ==
    /\ Alive
    /\ proc' = "exited"
    /\ returncode' \in (IF enc_end_written THEN {0, 1} ELSE {1})
    /\ UNCHANGED <<pipe, enc_frame, enc_end_written, workerVars, scanVars, appVars>>

\* ---- FFmpegWorker.run ----

\* lines 77-102: build the command and Popen it; no except clause catches a failed spawn
RunSpawn ==
    /\ w_pc = "start"
    /\ ffmpeg_cmd_with_progress' = cmd_with_progress(ffmpeg_cmd_list)
    /\ warning_logged' = (index(ffmpeg_cmd_list, Tok("-i")) = 0)
    /\ \/ /\ process' = "Popen"
          /\ proc' = "running"
          /\ w_pc' = "poll"
          /\ UNCHANGED w_exception
       \/ /\ w_exception' = "FileNotFoundError"
          /\ w_pc' = "done"
          /\ UNCHANGED <<process, proc>>
    /\ UNCHANGED <<is_cancelled, total_frames, line, emitted, c_pc, cancel_in_flight,
                   ffmpeg_cmd_list, returncode, pipe, enc_frame, enc_end_written, scanVars,
                   appVars>>

\* line 110: while self.process.poll() is None
RunPoll ==
    /\ w_pc = "poll"
    /\ w_pc' = IF Alive THEN "check_cancelled" ELSE "after_loop"
    /\ UNCHANGED <<is_cancelled, process, total_frames, line, emitted, w_exception, c_pc,
                   cancel_in_flight, encoderVars, launchVars, scanVars, appVars>>

\* lines 111-113
RunCheckCancelled ==
    /\ w_pc = "check_cancelled"
    /\ w_pc' = IF is_cancelled THEN "after_loop" ELSE "readline"
    /\ UNCHANGED <<is_cancelled, process, total_frames, line, emitted, w_exception, c_pc,
                   cancel_in_flight, encoderVars, launchVars, scanVars, appVars>>

\* line 119: readline() blocks until a line is there or stdout is at end of file
RunReadline ==
    /\ w_pc = "readline"
    /\ \/ /\ pipe # <<>>
          /\ line' = Head(pipe)
          /\ pipe' = Tail(pipe)
          /\ w_pc' = "parse"
       \/ /\ pipe = <<>> /\ proc \in {"closed", "exited"}
          /\ line' = EofLine
          /\ pipe' = pipe
          /\ w_pc' = "eof"
    /\ UNCHANGED <<is_cancelled, process, total_frames, emitted, w_exception, c_pc,
                   cancel_in_flight, proc, returncode, enc_frame, enc_end_written, launchVars, scanVars, appVars>>

\* lines 120-124: an empty read
RunEmptyRead ==
    /\ w_pc = "eof"
    /\ w_pc' = IF Alive THEN "poll" ELSE "after_loop"
    /\ UNCHANGED <<is_cancelled, process, total_frames, line, emitted, w_exception, c_pc,
                   cancel_in_flight, encoderVars, launchVars, scanVars, appVars>>

\* lines 129-142
RunParse ==
    /\ w_pc = "parse"
    /\ \/ /\ line.key = "frame"
          /\ emitted' = Append(emitted, ProgressUpdate(line.value, total_frames))
          /\ w_pc' = "poll"
       \/ /\ line = EndLine
          /\ emitted' = Append(emitted, ProgressUpdate(total_frames, total_frames))
          /\ w_pc' = "after_loop"
       \/ /\ line.key \notin {"frame", "progress"}
          /\ emitted' = emitted
          /\ w_pc' = "poll"
    /\ UNCHANGED <<is_cancelled, process, total_frames, line, w_exception, c_pc,
                   cancel_in_flight, encoderVars, launchVars, scanVars, appVars>>

\* line 145: if self._is_cancelled
RunAfterLoop ==
    /\ w_pc = "after_loop"
    /\ w_pc' = IF is_cancelled THEN "cancel_poll" ELSE "communicate"
    /\ UNCHANGED <<is_cancelled, process, total_frames, line, emitted, w_exception, c_pc,
                   cancel_in_flight, encoderVars, launchVars, scanVars, appVars>>

\* lines 146-147: terminate() if still running
RunCancelTerminate ==
    /\ w_pc = "cancel_poll"
    /\ w_pc' = IF ProcessIsRunning THEN "cancel_wait" ELSE "emit_cancelled"
    /\ UNCHANGED <<is_cancelled, process, total_frames, line, emitted, w_exception, c_pc,
                   cancel_in_flight, encoderVars, launchVars, scanVars, appVars>>

\* lines 148-151: wait(timeout=2), kill() on timeout
RunCancelWait ==
    /\ w_pc = "cancel_wait"
    /\ IF Alive
       THEN proc' = "exited" /\ returncode' = 1
       ELSE UNCHANGED <<proc, returncode>>
    /\ w_pc' = "emit_cancelled"
    /\ UNCHANGED <<is_cancelled, process, total_frames, line, emitted, w_exception, c_pc,
                   cancel_in_flight, pipe, enc_frame, enc_end_written, launchVars, scanVars, appVars>>

\* lines 152-154
RunEmitCancelled ==
    /\ w_pc = "emit_cancelled"
    /\ emitted' = Append(emitted, Finished(FALSE, "Cancelled"))
    /\ w_pc' = "finally"
    /\ UNCHANGED <<is_cancelled, process, total_frames, line, w_exception, c_pc,
                   cancel_in_flight, encoderVars, launchVars, scanVars, appVars>>

\* line 158: communicate(timeout=120) returns once the process has exited, or raises
\* TimeoutExpired, which no except clause catches
RunCommunicate ==
    /\ w_pc = "communicate"
    /\ \/ /\ proc = "exited"
          /\ pipe' = <<>>
          /\ w_pc' = "result"
          /\ UNCHANGED w_exception
       \/ /\ Alive
          /\ w_exception' = "TimeoutExpired"
          /\ w_pc' = "finally"
          /\ UNCHANGED pipe
    /\ UNCHANGED <<is_cancelled, process, total_frames, line, emitted, c_pc, cancel_in_flight,
                   proc, returncode, enc_frame, enc_end_written, launchVars, scanVars, appVars>>

\* the result branch with the exit status ignored
RunResultIgnoresReturncode ==
    /\ w_pc = "result"
    /\ emitted' = Append(emitted, Finished(TRUE, ""))
    /\ w_pc' = "finally"
    /\ UNCHANGED <<is_cancelled, process, total_frames, line, w_exception, c_pc,
                   cancel_in_flight, encoderVars, launchVars, scanVars, appVars>>

\* lines 160-174
RunResult ==
    /\ w_pc = "result"
    /\ emitted' = Append(emitted, Finished(returncode = 0, ""))
    /\ w_pc' = "finally"
    /\ UNCHANGED <<is_cancelled, process, total_frames, line, w_exception, c_pc,
                   cancel_in_flight, encoderVars, launchVars, scanVars, appVars>>

\* the finally block without the kill
RunFinallyLeavesProcess ==
    /\ w_pc = "finally"
    /\ w_pc' = "done"
    /\ UNCHANGED <<is_cancelled, process, total_frames, line, emitted, w_exception, c_pc,
                   cancel_in_flight, encoderVars, launchVars, scanVars, appVars>>

\* lines 179-184
RunFinally ==
    /\ w_pc = "finally"
    /\ IF ProcessIsRunning
       THEN proc' = "exited" /\ returncode' = 1 /\ pipe' = <<>>
       ELSE UNCHANGED <<proc, returncode, pipe>>
    /\ w_pc' = "done"
    /\ UNCHANGED <<is_cancelled, process, total_frames, line, emitted, w_exception, c_pc,
                   cancel_in_flight, enc_frame, enc_end_written, launchVars, scanVars, appVars>>

\* ---- FFmpegWorker.cancel_task, called on the GUI thread while the worker isRunning() ----

isRunning == w_pc \notin {"none", "done"}

\* lines 59-60
CancelSetFlag ==
    /\ c_pc = "idle"
    /\ isRunning
    /\ is_cancelled' = TRUE
    /\ cancel_in_flight' = (cancel_in_flight \/ proc # "exited")
    /\ c_pc' = "check"
    /\ UNCHANGED <<w_pc, process, total_frames, line, emitted, w_exception, encoderVars,
                   launchVars, scanVars, appVars>>

\* lines 61-64: terminate() if the process is running
CancelTerminate ==
    /\ c_pc = "check"
    /\ c_pc' = IF ProcessIsRunning THEN "wait" ELSE "idle"
    /\ UNCHANGED <<w_pc, is_cancelled, process, total_frames, line, emitted, w_exception,
                   cancel_in_flight, encoderVars, launchVars, scanVars, appVars>>

\* lines 66-70: wait(timeout=2), kill() on timeout
CancelWait ==
    /\ c_pc = "wait"
    /\ IF Alive
       THEN proc' = "exited" /\ returncode' = 1
       ELSE UNCHANGED <<proc, returncode>>
    /\ c_pc' = "idle"
    /\ UNCHANGED <<w_pc, is_cancelled, process, total_frames, line, emitted, w_exception,
                   cancel_in_flight, pipe, enc_frame, enc_end_written, launchVars, scanVars, appVars>>

EncoderNext ==
    \/ EncoderWriteFrame \/ EncoderWriteOther \/ EncoderWriteEnd
    \/ EncoderCloseStdout \/ EncoderExit
RunNext ==
    \/ RunSpawn \/ RunPoll \/ RunCheckCancelled \/ RunReadline \/ RunEmptyRead \/ RunParse
    \/ RunAfterLoop \/ RunCancelTerminate \/ RunCancelWait \/ RunEmitCancelled
    \/ RunCommunicate \/ RunResult \/ RunFinally
CancelNext == CancelSetFlag \/ CancelTerminate \/ CancelWait

WorkerNext == EncoderNext \/ RunNext \/ CancelNext

WorkerSpec == WorkerInit /\ [][WorkerNext]_vars

\* LaunchSpec: run() up to Popen, for every argument list a worker is constructed with
LaunchInit ==
    /\ NoScan
    /\ AppConstructed
    /\ w_pc = "start"
    /\ is_cancelled = FALSE
    /\ process = "None"
    /\ total_frames = 1
    /\ line = EofLine
    /\ emitted = <<>>
    /\ w_exception = "None"
    /\ c_pc = "idle"
    /\ cancel_in_flight = FALSE
    /\ ffmpeg_cmd_list \in LaunchCommands
    /\ ffmpeg_cmd_with_progress = <<>>
    /\ warning_logged = FALSE
    /\ proc = "none" /\ returncode = 0 /\ pipe = <<>> /\ enc_frame = 0
    /\ enc_end_written = FALSE

LaunchNext == RunSpawn

LaunchSpec == LaunchInit /\ [][LaunchNext]_vars

\* the worker thread and the GUI thread that runs cancel_task both keep being scheduled
WorkerFairSpec == WorkerSpec /\ WF_vars(RunNext) /\ WF_vars(CancelNext)

----------------------------------------------------------------------------
(* Job Queue & Runner: the handlers of TimelapseApp the controls reach     *)

TreeItem(i, c) == [start |-> i, checked |-> c]
CheckedItems == SelectSeq(tree, LAMBDA it : it.checked)

\* scan_directories_action: clear the tree, fill it with the sequences found (all
\* checked) and enable the start button only if there are any
scan_directories_action ==
    /\ scan_button
    /\ \E k \in 0..MaxSeqs :
          /\ tree' = [i \in 1..k |-> TreeItem(i, TRUE)]
          /\ start_button' = (k > 0)
    /\ removed_since_scan' = {}
    /\ gui_last' = "scan"
    /\ UNCHANGED <<scan_button, cancel_batch_button, cancel_current_button, batchVars,
                   scanVars, workerVars, encoderVars>>

\* the user ticks or unticks one sequence item
ToggleSequenceItem ==
    /\ \E i \in 1..Len(tree) :
          tree' = [tree EXCEPT ![i].checked = ~tree[i].checked]
    /\ gui_last' = "toggle"
    /\ UNCHANGED <<removed_since_scan, buttonVars, batchVars, scanVars, workerVars, encoderVars>>

\* handle_tree_item_changed, case 1: the user ticks or unticks the directory item,
\* which sets every sequence item below it
ToggleDirectoryItem ==
    /\ tree # <<>>
    /\ \E c \in BOOLEAN :
          /\ \E i \in 1..Len(tree) : tree[i].checked # c
          /\ tree' = [i \in 1..Len(tree) |-> [tree[i] EXCEPT !.checked = c]]
    /\ gui_last' = "toggle"
    /\ UNCHANGED <<removed_since_scan, buttonVars, batchVars, scanVars, workerVars, encoderVars>>

\* between scan and run, the files of a scanned sequence are removed from its directory
RemoveSequenceFiles ==
    /\ scan_button
    /\ \E i \in 1..Len(tree) :
          /\ tree[i].start \notin removed_since_scan
          /\ removed_since_scan' = removed_since_scan \cup {tree[i].start}
    /\ UNCHANGED <<tree, buttonVars, batchVars, gui_last, scanVars, workerVars, encoderVars>>

\* start_batch_action that leaves the start button enabled while the batch runs
start_batch_action_StartStaysEnabled ==
    /\ start_button
    /\ sequences_queue_for_batch' = CheckedItems
    /\ IF CheckedItems = <<>>
       THEN /\ gui_last' = "start_batch:empty"
            /\ UNCHANGED <<buttonVars, batch_cancelled_flag>>
       ELSE /\ start_button' = TRUE
            /\ scan_button' = FALSE
            /\ cancel_batch_button' = TRUE
            /\ cancel_current_button' = FALSE
            /\ batch_cancelled_flag' = FALSE
            /\ gui_last' = "start_batch:started"
    /\ UNCHANGED <<tree, removed_since_scan, current_batch_sequence_index,
                   processed_sequences_in_batch_count, active_ffmpeg_worker,
                   scanVars, workerVars, encoderVars>>

\* start_batch_action with the start controls switched before the selection is looked at
start_batch_action_ControlsFirst ==
    /\ start_button
    /\ sequences_queue_for_batch' = CheckedItems
    /\ start_button' = FALSE
    /\ scan_button' = FALSE
    /\ cancel_batch_button' = TRUE
    /\ cancel_current_button' = FALSE
    /\ batch_cancelled_flag' = FALSE
    /\ gui_last' = IF CheckedItems = <<>> THEN "start_batch:empty" ELSE "start_batch:started"
    /\ UNCHANGED <<tree, removed_since_scan, current_batch_sequence_index,
                   processed_sequences_in_batch_count, active_ffmpeg_worker,
                   scanVars, workerVars, encoderVars>>

\* start_batch_action (lines 1046-1100).  The statements after the return at line
\* 1081 (reset of the counters, index = 0, process_next_individual_sequence()) are
\* inside the "if not self.common_settings_for_batch" block and are never executed.
start_batch_action ==
    /\ start_button
    /\ sequences_queue_for_batch' = CheckedItems
    /\ \/ \* lines 1063-1066: nothing selected
          /\ CheckedItems = <<>>
          /\ gui_last' = "start_batch:empty"
          /\ UNCHANGED <<buttonVars, batch_cancelled_flag>>
       \/ \* lines 1068-1081: gather_common_settings_from_ui() returned None
          /\ CheckedItems # <<>>
          /\ start_button' = TRUE
          /\ scan_button' = TRUE
          /\ cancel_batch_button' = FALSE
          /\ cancel_current_button' = FALSE
          /\ batch_cancelled_flag' = FALSE
          /\ gui_last' = "start_batch:no_settings"
       \/ \* lines 1068-1076: settings gathered; the method ends here
          /\ CheckedItems # <<>>
          /\ start_button' = FALSE
          /\ scan_button' = FALSE
          /\ cancel_batch_button' = TRUE
          /\ cancel_current_button' = FALSE
          /\ batch_cancelled_flag' = FALSE
          /\ gui_last' = "start_batch:started"
    /\ UNCHANGED <<tree, removed_since_scan, current_batch_sequence_index,
                   processed_sequences_in_batch_count, active_ffmpeg_worker,
                   scanVars, workerVars, encoderVars>>

\* cancel_batch_action (lines 630-638); its call of cancel_current_action finds no
\* running worker (active_ffmpeg_worker is None) and only logs
cancel_batch_action ==
    /\ cancel_batch_button
    /\ batch_cancelled_flag' = TRUE
    /\ active_ffmpeg_worker = "None"
    /\ start_button' = FALSE
    /\ cancel_batch_button' = FALSE
    /\ cancel_current_button' = FALSE
    /\ gui_last' = "cancel_batch"
    /\ UNCHANGED <<tree, removed_since_scan, scan_button, sequences_queue_for_batch,
                   current_batch_sequence_index, processed_sequences_in_batch_count,
                   active_ffmpeg_worker, scanVars, workerVars, encoderVars>>

AppInit == NoScan /\ NoWorker /\ AppConstructed

Next ==
    \/ scan_directories_action
    \/ ToggleSequenceItem
    \/ ToggleDirectoryItem
    \/ RemoveSequenceFiles
    \/ start_batch_action
    \/ cancel_batch_action

Spec == AppInit /\ [][Next]_vars

\* the GUI event loop keeps handling the events of the controls
FairSpec == Spec /\ WF_vars(Next)

----------------------------------------------------------------------------
(* Claims about the Sequence Scanner (checked under ScanSpec) *)

\* the prefix/suffix-matching files of the scanned directory
MatchingFiles ==
    {e.name : e \in {x \in directory_path.entries :
                        x.is_file /\ get_numeric_part(x.name, filename_prefix, TheSuffix) # None}}
RunsHolding(n) == {i \in 1..Len(yielded) : n \in Range(yielded[i].frames)}

\* C1: the runs yielded for a directory partition its matching files: every
\* matching file is a member of exactly one run, and runs hold matching files only.
\* (The code breaks this when widths mix around 9 -> 10.)
C1_RunsPartitionMatchingFiles ==
    scan_pc # "input" =>
        /\ \A n \in MatchingFiles : Cardinality(RunsHolding(n)) = 1
        /\ \A i \in 1..Len(yielded) : Range(yielded[i].frames) \subseteq MatchingFiles

\* C2: count_total_sequences_in_paths over the list of paths equals the number of
\* jobs generate_ffmpeg_commands_for_sequences_in_dir yields over its directories.
C2_CountAgreesWithEnumeration ==
    scan_pc = "counted" => total_sequence_count = Len(yielded) + Len(yielded_extra)

\* C2 witness: several runs in the first directory (one of them longer than one
\* frame), a second directory with runs, and the count taken.
C2_Witness ==
    /\ scan_pc = "counted"
    /\ Len(yielded) >= 2
    /\ \E i \in 1..Len(yielded) : yielded[i].num_frames >= 2
    /\ Len(yielded_extra) >= 2

MatchingNumStrs ==
    {get_numeric_part(n, filename_prefix, TheSuffix) : n \in MatchingFiles}
SameDigitWidth == \A a, b \in MatchingNumStrs : Len(a) = Len(b)
PresentValues == {IntOf(ds) : ds \in MatchingNumStrs}
IsMaximalInterval(lo, hi) ==
    /\ lo <= hi
    /\ \A v \in lo..hi : v \in PresentValues
    /\ (lo - 1) \notin PresentValues
    /\ (hi + 1) \notin PresentValues
RunLo(r) == IntOf(r.start_number_str)
RunHi(r) == RunLo(r) + r.num_frames - 1

\* C3: with one digit width in the directory, the runs yielded are exactly the
\* maximal intervals of consecutive values present, in ascending order of start,
\* each holding the files of its interval in order.
C3_RunsAreMaximalIntervals ==
    (scan_pc # "input" /\ SameDigitWidth) =>
        /\ \A i \in 1..Len(yielded) :
              /\ IsMaximalInterval(RunLo(yielded[i]), RunHi(yielded[i]))
              /\ yielded[i].frames =
                     [k \in 1..yielded[i].num_frames |->
                         filename_prefix
                         \o FormatNum(Len(yielded[i].start_number_str), RunLo(yielded[i]) + k - 1)
                         \o TheSuffix]
        /\ \A i, j \in 1..Len(yielded) : i < j => RunLo(yielded[i]) < RunLo(yielded[j])
        /\ \A lo, hi \in PresentValues :
              IsMaximalInterval(lo, hi) => \E i \in 1..Len(yielded) : RunLo(yielded[i]) = lo

\* C3 witness: one width, a run of several frames, a gap, then a run of one frame
\* (the shape of P0001..P0005 plus P0010).
C3_Witness ==
    /\ scan_pc = "scanned"
    /\ SameDigitWidth
    /\ Len(yielded) = 2
    /\ yielded[1].num_frames >= 2
    /\ yielded[2].num_frames = 1
    /\ RunLo(yielded[2]) > RunHi(yielded[1]) + 1

\* C20: the runs yielded do not depend on the order of the directory listing: for
\* every order of the same entries the scanner yields the runs (start digit strings,
\* member files) it yields for one fixed order of them, in the same order.
C20_RunsIndependentOfListingOrder ==
    scan_pc # "input" =>
        yielded = generate_ffmpeg_commands_for_sequences_in_dir(
                      DirPath(directory_path.entries), filename_prefix, TheSuffix)

\* the matching files in the order the listing returns them
ListedInfos == all_potential_files_info(iterdir(directory_path), filename_prefix, TheSuffix)

\* C20 witness: a listing that is neither the fixed order nor sorted, of a directory
\* that yields several runs, one of them of several frames.
C20_Witness ==
    /\ scan_pc = "scanned"
    /\ directory_path.listing # DirPath(directory_path.entries).listing
    /\ ListedInfos # SortInfos(ListedInfos)
    /\ Len(yielded) >= 2
    /\ \E i \in 1..Len(yielded) : yielded[i].num_frames >= 2

----------------------------------------------------------------------------
(* Claims about directory discovery (checked under DiscoverSpec) *)

\* C24: find_potential_sequence_dirs fails with an error outcome when the parent path
\* does not exist or is not a directory, and returns without an error (possibly the
\* empty list) when the parent is a directory, so that the two cases can be told
\* apart.  (The code prints a message and returns the empty list for a parent that
\* is not a directory: the same outcome as for a directory in which nothing
\* qualifies.)
C24_BadParentIsAnError ==
    discover_outcome # "none" =>
        (discover_outcome = "raised") <=> ~parent_dir_path.is_dir

----------------------------------------------------------------------------
(* Claims about the settings record (checked under SettingsSpec) *)

\* the value of the -vf argument of a job
VfArgument(job) ==
    LET at == CHOOSE k \in 1..Len(job.ffmpeg_cmd) : job.ffmpeg_cmd[k] = Tok("-vf")
    IN  job.ffmpeg_cmd[at + 1]

\* the text denotes a positive even integer
PositiveEven(text) == int(text).ok /\ int(text).number > 0 /\ int(text).number % 2 = 0
CustomScaleAccepted == common_settings.scale_filter_string # <<>>

\* C22: a custom scale is accepted if and only if the width is a positive even
\* integer and the height is either "-2" or a positive even integer; on rejection
\* gather_common_settings_from_ui still returns the record, with an empty scale
\* filter, and the job is compiled without scaling.  (The code takes the width with int() and the height with
\* isdigit(): a height such as "2 " or "+2" is rejected.)
C22_CustomScaleValidation ==
    gather_pc = "gathered" =>
        /\ CustomScaleAccepted <=>
              /\ PositiveEven(scale_custom_width_edit)
              /\ \/ scale_custom_height_edit = <<"-", "2">>
                 \/ PositiveEven(scale_custom_height_edit)
        /\ (~CustomScaleAccepted /\ scan_pc = "scanned") =>
              /\ Len(jobs) = 1
              /\ VfArgument(jobs[1]) = <<"format=", common_settings.pixel_format_final>>

----------------------------------------------------------------------------
(* Claims about the batch scan (checked under BatchScanSpec) *)

\* the jobs and runs of the two directories, in the order of the queue
BatchJobs == jobs \o jobs_second
BatchRuns == yielded \o yielded_extra

\* C26: each entry recorded at scan time holds the digit string of the first file of
\* its run, and the job the runner dispatches for the entry is the job compiled from
\* that run, whatever the directory name and the custom output base name are.  (The
\* code takes the recorded string from the first "seq<digits>" of the output file
\* name, which a directory or base name such as "seq7" supplies; and the runner
\* dispatches nothing: see C7, and the KeyError at line 1118.)
C26_EntryRelocatesItsJob ==
    /\ \A i \in 1..Len(scan_records) :
          scan_records[i].start_number_str_approx = BatchRuns[i].start_number_str
    /\ scan_pc = "dispatched" =>
          /\ dispatched.found
          /\ dispatched.cmd_to_run = BatchJobs[dispatched.index].ffmpeg_cmd

\* C27: any two distinct sequences of one batch, compiled with one settings record,
\* in the same directory or in different directories, with or without a custom
\* output base name, have different destination paths.  (The code builds the file
\* name from the custom base name instead of the directory name: with a base name
\* set, sequences of two directories that start with the same digit string get
\* the same destination.)
C27_DestinationsAreDistinct ==
    \A i, j \in 1..Len(BatchJobs) :
        i # j => BatchJobs[i].final_output_path # BatchJobs[j].final_output_path

----------------------------------------------------------------------------
(* Claims about the Job Compiler (checked under CompileSpec) *)

\* C19: two runs of the generator over the same directory contents, prefix and
\* suffix, settings record and probe result yield the same jobs in the same order:
\* identical argument lists, destination paths and frame counts.
C19_CompileIsDeterministic ==
    scan_pc = "rescanned" => jobs_again = jobs

\* C19 witness: the second run saw the entries in another order than the first, and
\* the jobs are several, compiled with the NVENC safety scale in force.
C19_Witness ==
    /\ scan_pc = "rescanned"
    /\ listing_again # directory_path.listing
    /\ Len(jobs) >= 2
    /\ common_settings.video_codec = "h264_nvenc"
    /\ dimensions # NoDimensions /\ dimensions[1] > MAX_NVENC_H264_WIDTH
    /\ common_settings.scale_filter_string = <<>>

\* the maximum width the claim names for the hardware codecs
ClaimedMaxWidth(video_codec) ==
    IF video_codec = "hevc_nvenc" THEN MAX_NVENC_HEVC_WIDTH ELSE MAX_NVENC_H264_WIDTH
ClaimedOverride ==
    /\ common_settings.scale_filter_string = <<>>
    /\ dimensions # NoDimensions
    /\ common_settings.video_codec \in {"h264_nvenc", "hevc_nvenc"}
    /\ dimensions[1] > ClaimedMaxWidth(common_settings.video_codec)
ClaimedScaleFilter ==
    IF ClaimedOverride
    THEN <<"scale=">> \o Decimal(ClaimedMaxWidth(common_settings.video_codec))
             \o <<":-2:flags=lanczos">>
    ELSE common_settings.scale_filter_string
\* C21: with no scale filter in the settings and a probed width above the maximum
\* of the active hardware codec (4096 for h264_nvenc, 8192 for hevc_nvenc) the scale
\* filter of the job is the downscale to exactly that maximum and the resolution is
\* marked auto-scaled; in every other case the filter of the settings is used as it
\* is.  (The code compares hevc_nvenc with the h264_nvenc maximum and scales to it.)
C21_SafetyOverrideMatchesCodecMaximum ==
    \A i \in 1..Len(jobs) :
        /\ VfArgument(jobs[i]) =
               ClaimedScaleFilter
               \o (IF ClaimedScaleFilter # <<>> THEN <<",format=">> ELSE <<"format=">>)
               \o <<common_settings.pixel_format_final>>
        /\ ("autoscaled-" \in Range(jobs[i].final_output_path.name)) <=> ClaimedOverride

\* the value that follows an option in the argument list of a job
ArgumentAfter(job, option) ==
    LET at == CHOOSE k \in 1..Len(job.ffmpeg_cmd) : job.ffmpeg_cmd[k] = Tok(option)
    IN  job.ffmpeg_cmd[at + 1]
\* the files the encoder reads for a job: the template of width num_digits rendered
\* for start, start + 1, ..., start + count - 1
FilesRead(start_str, num_digits, count) ==
    [k \in 1..count |->
        filename_prefix \o FormatNum(num_digits, IntOf(start_str) + k - 1) \o TheSuffix]

\* C30: every job yielded has a frame count of at least 1 that is the number of
\* member files of its run; -vframes is that count, -start_number is the digit
\* string of the first member file, the template of -i has the width of that digit
\* string, and the files the encoder reads exist and are exactly the members.
C30_JobMatchesItsRun ==
    scan_pc # "input" =>
        /\ Len(jobs) = Len(yielded)
        /\ \A i \in 1..Len(jobs) :
              LET job == jobs[i]
                  members == yielded[i].frames
                  start_str == get_numeric_part(members[1], filename_prefix, TheSuffix)
                  read == FilesRead(ArgumentAfter(job, "-start_number"), Len(start_str),
                                    job.num_frames_to_process)
              IN  /\ job.num_frames_to_process >= 1
                  /\ job.num_frames_to_process = Len(members)
                  /\ ArgumentAfter(job, "-vframes") = Decimal(Len(members))
                  /\ ArgumentAfter(job, "-start_number") = start_str
                  /\ ArgumentAfter(job, "-i") =
                         directory_path.name \o <<"/">> \o filename_prefix
                         \o <<"%", "0">> \o Decimal(Len(start_str)) \o <<"d">> \o TheSuffix
                  /\ \A k \in 1..Len(read) : is_file(directory_path, read[k])
                  /\ read = members

\* C30 witness (reached under ScanSpec): two jobs, one of them of a run of two files
\* whose start digit string is zero-padded.
C30_Witness ==
    /\ scan_pc # "input"
    /\ Len(jobs) >= 2
    /\ \E i \in 1..Len(jobs) :
          /\ jobs[i].num_frames_to_process >= 2
          /\ Head(ArgumentAfter(jobs[i], "-start_number")) = "0"

----------------------------------------------------------------------------
(* Claims about the Process Supervisor (checked under WorkerSpec) *)

FinishedEvents == {i \in 1..Len(emitted) : emitted[i].signal = "finished"}

\* C5: when cancel_task was invoked while the job's encoder was in flight (at any
\* point before the encoder exited), the terminal event the worker emits is
\* finished(False, "<path> (Cancelled)"), never a plain success or failure.
\* (The code breaks this when the cancel arrives after the check at line 145.)
C5_InFlightCancelEmitsCancelled ==
    \A i \in FinishedEvents :
        emitted[i].in_flight_cancel =>
            (emitted[i].success = FALSE /\ emitted[i].tag = "Cancelled")

RunEnded == w_pc = "done"
FailureEvents == {i \in FinishedEvents : emitted[i].success = FALSE}
ProgressEvents == {i \in 1..Len(emitted) : emitted[i].signal = "progress_update"}

\* C11: when the encoder process cannot be spawned, run() emits a failure terminal
\* event, finished(False, ...), without having read any progress.  (The code has no
\* except clause: the exception of Popen leaves run() and nothing is emitted.)
C11_SpawnFailureEmitsFailure ==
    (RunEnded /\ w_exception = "FileNotFoundError") =>
        (FailureEvents # {} /\ ProgressEvents = {})

\* C12: when the encoder does not exit within the wait of communicate(), the process
\* is killed and a failure terminal event is emitted.  (The code kills the process in
\* the finally block, but TimeoutExpired leaves run() and nothing is emitted.)
C12_CommunicateTimeoutKillsAndFails ==
    (RunEnded /\ w_exception = "TimeoutExpired") =>
        (proc = "exited" /\ FailureEvents # {})

\* C13: the success terminal event of a job is directly preceded by a progress event
\* whose current frame is the expected frame count.  (The code leaves the read loop
\* as soon as poll() sees the encoder gone, with progress=end still unread.)
C13_SuccessFollowsFinalProgress ==
    \A i \in FinishedEvents :
        emitted[i].success =>
            (i > 1 /\ emitted[i - 1] = ProgressUpdate(total_frames, total_frames))

\* C17: the terminal event of a job that was not cancelled is the plain one carrying
\* the destination path, and it is success exactly when the exit code of the encoder
\* is zero, failure exactly when it is non-zero.
C17_ResultFollowsExitCode ==
    \A i \in FinishedEvents :
        /\ ~is_cancelled => emitted[i].tag = ""
        /\ emitted[i].tag = "" =>
              (proc = "exited" /\ emitted[i].success = (returncode = 0))

\* C17 witness: a job that was never cancelled ended with exit code zero and its
\* success event, after the read loop had seen a frame line.
C17_Witness ==
    /\ RunEnded /\ ~is_cancelled
    /\ returncode = 0
    /\ ProgressEvents # {}
    /\ \E i \in FinishedEvents : emitted[i].success /\ emitted[i].tag = ""

\* the argument list with the two arguments at positions at and at + 1 taken out
WithoutPair(cmd, at) == SubSeq(cmd, 1, at - 1) \o SubSeq(cmd, at + 2, Len(cmd))
\* run() has built the argument list it launches
Launched == ffmpeg_cmd_with_progress # <<>>

\* C23: the command launched is the argument list of the job with '-progress',
\* 'pipe:1' inserted immediately before the first '-i' and every other argument in
\* its original order; if the list has no '-i', the two arguments come right after
\* the executable name and a warning is logged.
C23_ProgressPlacedBeforeInput ==
    Launched =>
        \E at \in 1..(Len(ffmpeg_cmd_with_progress) - 1) :
            /\ ffmpeg_cmd_with_progress[at] = Tok("-progress")
            /\ ffmpeg_cmd_with_progress[at + 1] = Tok("pipe:1")
            /\ WithoutPair(ffmpeg_cmd_with_progress, at) = ffmpeg_cmd_list
            /\ IF \E k \in 1..Len(ffmpeg_cmd_list) : ffmpeg_cmd_list[k] = Tok("-i")
               THEN /\ ffmpeg_cmd_list[at] = Tok("-i")
                    /\ \A k \in 1..(at - 1) : ffmpeg_cmd_list[k] # Tok("-i")
                    /\ ~warning_logged
               ELSE /\ at = 2
                    /\ warning_logged

\* C23 witness: the command of a compiled job, whose '-i' is the seventh argument,
\* has been launched with the progress arguments in seventh and eighth place.
C23_Witness ==
    /\ Launched
    /\ process = "Popen"
    /\ ffmpeg_cmd_list \in JobCommands
    /\ ffmpeg_cmd_list[7] = Tok("-i")
    /\ ffmpeg_cmd_with_progress[7] = Tok("-progress")
    /\ ffmpeg_cmd_with_progress[9] = Tok("-i")

\* C28: whenever run() has ended, on every path (success, failure, cancellation, an
\* exception raised after the spawn), the encoder process it launched is no longer
\* running.
C28_EndedRunLeavesNoEncoder ==
    RunEnded => ~Alive

\* C28 witness: communicate() timed out on an encoder that was still running, and
\* run() has ended with that encoder gone.
C28_Witness ==
    /\ RunEnded
    /\ w_exception = "TimeoutExpired"
    /\ process = "Popen"
    /\ proc = "exited"

\* C29: once cancellation of the job has been requested (before the spawn, while the
\* worker is blocked in readline, or between reads), the worker eventually emits a
\* terminal event for the job.  (In the code a cancel requested before a spawn that
\* fails, or before a communicate() that times out, is followed by no terminal event:
\* the exception leaves run(), see C11 and C12.)
C29_CancelLeadsToTerminalEvent ==
    is_cancelled ~> (FinishedEvents # {})

----------------------------------------------------------------------------
(* Claims about the Job Queue & Runner (checked under Spec) *)

\* a batch is in progress from start_batch_action until cleanup_after_batch_or_cancel
\* re-enables the scan button
BatchInProgress == ~scan_button
JobInFlight == active_ffmpeg_worker # "None"

\* C4: batch-cancel stops dispatch and the batch ends as Cancelled: the batch-cancel
\* flag is set only while the in-flight job's terminal event is outstanding; once
\* that event is handled no further worker is started and the cleanup (which resets
\* the flag) has run.  (The code sets the flag in a batch that has no job in flight
\* and never runs the cleanup.)
C4_BatchCancelEndsCancelled ==
    batch_cancelled_flag => JobInFlight

\* C6: a batch that is not batch-cancelled keeps running whatever its jobs' results
\* are: while it is in progress, job number current_batch_sequence_index is in
\* flight and every earlier job has been counted as completed.  (In the code a
\* started batch has no job in flight.)
C6_UncancelledBatchKeepsRunning ==
    (BatchInProgress /\ ~batch_cancelled_flag) =>
        /\ current_batch_sequence_index < Len(sequences_queue_for_batch)
        /\ processed_sequences_in_batch_count = current_batch_sequence_index
        /\ JobInFlight

\* C7: start_batch_action with a non-empty selection and valid settings resets the
\* completed-count and the index, clears the batch-cancel flag and dispatches the
\* first queued job.  (The code returns before the dispatch.)
C7_StartBatchEntersRunning0 ==
    gui_last = "start_batch:started" =>
        /\ processed_sequences_in_batch_count = 0
        /\ current_batch_sequence_index = 0
        /\ batch_cancelled_flag = FALSE
        /\ JobInFlight

\* C16: a queued sequence whose files were removed between scan and run is skipped
\* as a failed job: the runner never rests on it, the index has moved past it and
\* the entries after it are dispatched.  (In the code a started batch dispatches
\* nothing and the index stays on the first entry, missing or not.)
C16_MissingSequenceIsSkipped ==
    (BatchInProgress /\ ~batch_cancelled_flag
        /\ current_batch_sequence_index < Len(sequences_queue_for_batch)) =>
        sequences_queue_for_batch[current_batch_sequence_index + 1].start
            \notin removed_since_scan

\* C18: only one batch is active at a time: while a batch is in progress the start
\* button is disabled, so no step replaces the queue, the index or the
\* completed-count of the running batch.
C18_OneBatchAtATime ==
    [][BatchInProgress =>
          /\ ~start_button
          /\ UNCHANGED <<sequences_queue_for_batch, current_batch_sequence_index,
                         processed_sequences_in_batch_count>>]_vars

\* C18 witness: a batch of two sequences is in progress and the ticks in the tree
\* have changed since, so a second start would replace the queue.
C18_Witness ==
    /\ BatchInProgress
    /\ Len(sequences_queue_for_batch) >= 2
    /\ CheckedItems # <<>>
    /\ CheckedItems # sequences_queue_for_batch

\* C8: start_batch_action with nothing selected leaves the runner in Idle: no worker
\* is created, index, completed-count and batch-cancel flag are unchanged, and the
\* controls keep their Idle enablement (start and scan enabled, cancels disabled).
C8_EmptySelectionStaysIdle ==
    [][gui_last' = "start_batch:empty" =>
          /\ UNCHANGED <<current_batch_sequence_index, processed_sequences_in_batch_count,
                         batch_cancelled_flag, active_ffmpeg_worker, buttonVars,
                         workerVars, encoderVars>>
          /\ start_button' /\ scan_button'
          /\ ~cancel_batch_button' /\ ~cancel_current_button'
          /\ ~JobInFlight']_vars

\* C8 witness: the start button was pressed with sequences in the tree, none ticked.
C8_Witness ==
    /\ gui_last = "start_batch:empty"
    /\ tree # <<>>
    /\ CheckedItems = <<>>

\* C25: every batch started with a non-empty selection eventually reaches a terminal
\* state in which the cleanup has run: the batch-cancel flag is reset, the scan and
\* start controls are enabled again and the cancel controls are disabled.  (In the
\* code a started batch dispatches nothing, see C7, so no terminal event ever arrives
\* and the cleanup never runs.)
C25_StartedBatchTerminates ==
    (gui_last = "start_batch:started") ~>
        (scan_button /\ start_button /\ ~cancel_batch_button /\ ~batch_cancelled_flag)

====
